---- MODULE Spec2Model ----
(***************************************************************************)
(* Model of solaripy/Array371X.py: the three construct frame layouts       *)
(* (ARRAYCMD_SET, ARRAYCMD_GET, ARRAYCMD_STATE), the ScalingLimitor and    *)
(* DeviceProperty descriptors and the Array371X client on a byte stream.   *)
(*                                                                         *)
(* Frames are sequences of integers 0..255.  TLA+ sequences start at 1,    *)
(* so the byte at wire offset k is At(f, k) == f[k + 1].                   *)
(* Physical values handed to a ScalingLimitor are the rationals n / ReqDen *)
(* and are carried as the numerator n.                                     *)
(***************************************************************************)
EXTENDS Integers, Sequences, FiniteSets, TLC

VARIABLES
    addressArg,   \* the address argument given to Array371X(stream, address)
    addr,         \* self._addr
    max_current,  \* self.max_current
    max_power,    \* self.max_power
    call,         \* the client's most recent operation and its stream traffic
    frame,        \* codec: the bytes under test
    parsed,       \* codec: the result of parsing frame
    stage,        \* codec: "init", "get", "edited", "fixed" or "set"
    editPos,      \* codec: wire offset of the edited byte, -1 when none
    args          \* codec: the values the frame was built from

vars == <<addressArg, addr, max_current, max_power, call,
          frame, parsed, stage, editPos, args>>

clientVars == <<addressArg, addr, max_current, max_power, call>>
codecVars == <<frame, parsed, stage, editPos, args>>

(***************************************************************************)
(* Bounds of the model.                                                    *)
(***************************************************************************)
\* Requested physical values are multiples of 1 / ReqDen.
ReqDen == 4
\* Requests reach this many whole units below min and above max.
MaxOver == 1

(***************************************************************************)
(* Program constants.                                                      *)
(***************************************************************************)
START == 170
CMD_SET == 144
CMD_GET == 145
CMD_STATE == 146
FRAME_LEN == 26

(***************************************************************************)
(* construct primitives.                                                   *)
(***************************************************************************)
At(f, k) == f[k + 1]

\* sum(x for x in data[:n])
RECURSIVE SumTo(_, _)
SumTo(s, n) == IF n = 0 THEN 0 ELSE s[n] + SumTo(s, n - 1)

Sum(s) == SumTo(s, Len(s))

Zeros(n) == [i \in 1..n |-> 0]

IsByte(v) == v \in 0..255
IsInt16ul(v) == v \in 0..65535
\* A 32-bit value v is carried as <<v % 65536, v \div 65536>>: the low and
\* the high 16-bit word (2^32 - 1 is beyond the integers of the checker).
IsInt32ul(w) == IsInt16ul(w[1]) /\ IsInt16ul(w[2])

Int16ul(v) == <<v % 256, v \div 256>>
Int32ul(w) == Int16ul(w[1]) \o Int16ul(w[2])

ParseInt16ul(f, k) == At(f, k) + 256 * At(f, k + 1)
ParseInt32ul(f, k) == <<ParseInt16ul(f, k), ParseInt16ul(f, k + 2)>>

\* Flag build: one bit, 1 when the value is true.
FlagBit(b) == IF b THEN 1 ELSE 0

\* Bitwise: the first bit of a BitStruct is the most significant bit.
RECURSIVE BitsToInt(_)
BitsToInt(bits) ==
    IF bits = <<>> THEN 0
    ELSE 2 * BitsToInt(SubSeq(bits, 1, Len(bits) - 1)) + bits[Len(bits)]

ByteToBits(b) == [i \in 1..8 |-> (b \div (2 ^ (8 - i))) % 2]

\* The checksum function of all three layouts.
ChecksumMut(data) == (Sum(data) - data[1]) % 256
Checksum(data) == Sum(data) % 256

BuildError == [ok |-> FALSE, data |-> <<>>]
Built(fields) == [ok |-> TRUE, data |-> Append(fields, Checksum(fields))]

(***************************************************************************)
(* ARRAYCMD_SET                                                            *)
(***************************************************************************)
SetKinds == {"current", "power", "resistance"}

\* Enum(Byte, current=1, power=2, resistance=3): name to integer.
EnumEncode(kind) ==
    CASE kind = "current" -> 1
      [] kind = "power" -> 2
      [] kind = "resistance" -> 3

\* Enum parse: integer to name; an unmapped integer has no name.
EnumDecode(b) ==
    CASE b = 1 -> "current"
      [] b = 2 -> "power"
      [] b = 3 -> "resistance"
      [] OTHER -> ""

ARRAYCMD_SET_fieldsMut(address, maxCurrent, maxPower, newAddress, type, value) ==
    <<START, address, CMD_SET>> \o Int16ul(maxPower) \o Int16ul(maxCurrent)
        \o <<newAddress, type>> \o Int16ul(value) \o Zeros(14)
ARRAYCMD_SET_fields(address, maxCurrent, maxPower, newAddress, type, value) ==
    <<START, address, CMD_SET>> \o Int16ul(maxCurrent) \o Int16ul(maxPower)
        \o <<newAddress, type>> \o Int16ul(value) \o Zeros(14)

ARRAYCMD_SET_build(address, maxCurrent, maxPower, newAddress, type, value) ==
    IF /\ IsByte(address) /\ IsInt16ul(maxCurrent) /\ IsInt16ul(maxPower)
       /\ IsByte(newAddress) /\ IsByte(type) /\ IsInt16ul(value)
    THEN Built(ARRAYCMD_SET_fields(address, maxCurrent, maxPower, newAddress, type, value))
    ELSE BuildError

SetValueMut(f) ==
    [address |-> At(f, 1), max_current |-> ParseInt16ul(f, 3),
     max_power |-> ParseInt16ul(f, 5), new_address |-> At(f, 7),
     type |-> EnumDecode(At(f, 8)), value |-> At(f, 9)]
SetValue(f) ==
    [address |-> At(f, 1), max_current |-> ParseInt16ul(f, 3),
     max_power |-> ParseInt16ul(f, 5), new_address |-> At(f, 7),
     type |-> EnumDecode(At(f, 8)), value |-> ParseInt16ul(f, 9)]

ParseFrameMut(f, command) ==
    IF Len(f) < 1 THEN "StreamError"
    ELSE IF At(f, 0) # START THEN "ConstError"
    ELSE IF Len(f) < 3 THEN "StreamError"
    ELSE IF At(f, 2) # command THEN "ConstError"
    ELSE IF Len(f) < FRAME_LEN THEN "StreamError"
    ELSE "none"
\* Struct parse: the fields in order, each reading its bytes from the
\* stream, then the checksum byte.
ParseFrame(f, command) ==
    IF Len(f) < 1 THEN "StreamError"
    ELSE IF At(f, 0) # START THEN "ConstError"
    ELSE IF Len(f) < 3 THEN "StreamError"
    ELSE IF At(f, 2) # command THEN "ConstError"
    ELSE IF Len(f) < FRAME_LEN THEN "StreamError"
    ELSE IF At(f, 25) # Checksum(SubSeq(f, 1, 25)) THEN "ChecksumError"
    ELSE "none"

ARRAYCMD_SET_parse(f) ==
    LET e == ParseFrame(f, CMD_SET) IN
    IF e = "none" THEN [err |-> "none", value |-> SetValue(f)] ELSE [err |-> e]

(***************************************************************************)
(* ARRAYCMD_GET                                                            *)
(***************************************************************************)
FlagNames == <<"excessive_current", "excessive_voltage", "excessive_temperature",
               "incorrect_polarity", "enabled", "remote">>

NoFlags == [excessive_current |-> FALSE, excessive_voltage |-> FALSE,
            excessive_temperature |-> FALSE, incorrect_polarity |-> FALSE,
            enabled |-> FALSE, remote |-> FALSE]

\* BitStruct(Padding(2), six Flags) build.
GetStateByte(s) ==
    BitsToInt(<<0, 0, FlagBit(s.excessive_current), FlagBit(s.excessive_voltage),
                FlagBit(s.excessive_temperature), FlagBit(s.incorrect_polarity),
                FlagBit(s.enabled), FlagBit(s.remote)>>)

\* BitStruct(Padding(2), six Flags) parse: the two padding bits are skipped.
GetStateFlagsMut(b) ==
    LET bits == ByteToBits(b) IN
    [excessive_current |-> bits[3] # 0, excessive_voltage |-> bits[4] # 0,
     excessive_temperature |-> bits[5] # 0, incorrect_polarity |-> bits[6] # 0,
     enabled |-> bits[8] # 0, remote |-> bits[7] # 0]
GetStateFlags(b) ==
    LET bits == ByteToBits(b) IN
    [excessive_current |-> bits[3] # 0, excessive_voltage |-> bits[4] # 0,
     excessive_temperature |-> bits[5] # 0, incorrect_polarity |-> bits[6] # 0,
     enabled |-> bits[7] # 0, remote |-> bits[8] # 0]

\* The Default(...) values of the ARRAYCMD_GET fields.
GetDefaults(address) ==
    [address |-> address, current |-> 0, voltage |-> <<0, 0>>, power |-> 0,
     max_current |-> 0, max_power |-> 0, resistance |-> 0, state |-> NoFlags]

ARRAYCMD_GET_fields(v) ==
    <<START, v.address, CMD_GET>> \o Int16ul(v.current) \o Int32ul(v.voltage)
        \o Int16ul(v.power) \o Int16ul(v.max_current) \o Int16ul(v.max_power)
        \o Int16ul(v.resistance) \o <<GetStateByte(v.state)>> \o Zeros(7)

ARRAYCMD_GET_build(v) ==
    IF /\ IsByte(v.address) /\ IsInt16ul(v.current) /\ IsInt32ul(v.voltage)
       /\ IsInt16ul(v.power) /\ IsInt16ul(v.max_current) /\ IsInt16ul(v.max_power)
       /\ IsInt16ul(v.resistance)
    THEN Built(ARRAYCMD_GET_fields(v))
    ELSE BuildError

GetValue(f) ==
    [address |-> At(f, 1), current |-> ParseInt16ul(f, 3),
     voltage |-> ParseInt32ul(f, 5), power |-> ParseInt16ul(f, 9),
     max_current |-> ParseInt16ul(f, 11), max_power |-> ParseInt16ul(f, 13),
     resistance |-> ParseInt16ul(f, 15), state |-> GetStateFlags(At(f, 17))]

ARRAYCMD_GET_parse(f) ==
    LET e == ParseFrame(f, CMD_GET) IN
    IF e = "none" THEN [err |-> "none", value |-> GetValue(f)] ELSE [err |-> e]

(***************************************************************************)
(* ARRAYCMD_STATE                                                          *)
(***************************************************************************)
\* BitStruct(Padding(6), remote / Default(Flag, True),
\*           enabled / Default(Flag, False)): the key that is given takes
\* its value, the other one its default.
\* value is the Python value assigned (0 or 1); Flag builds its truth value.
StateByteMut(key, value) ==
    IF key = "enabled"
    THEN BitsToInt(<<0, 0, 0, 0, 0, 0, FlagBit(FALSE), FlagBit(value # 0)>>)
    ELSE BitsToInt(<<0, 0, 0, 0, 0, 0, FlagBit(value # 0), FlagBit(FALSE)>>)
StateByte(key, value) ==
    IF key = "enabled"
    THEN BitsToInt(<<0, 0, 0, 0, 0, 0, FlagBit(TRUE), FlagBit(value # 0)>>)
    ELSE BitsToInt(<<0, 0, 0, 0, 0, 0, FlagBit(value # 0), FlagBit(FALSE)>>)

ARRAYCMD_STATE_fields(address, key, value) ==
    <<START, address, CMD_STATE, StateByte(key, value)>> \o Zeros(21)

ARRAYCMD_STATE_build(address, key, value) ==
    IF IsByte(address)
    THEN Built(ARRAYCMD_STATE_fields(address, key, value))
    ELSE BuildError

(***************************************************************************)
(* ScalingLimitor and DeviceProperty descriptors, Array371X.               *)
(***************************************************************************)
Min(a, b) == IF b < a THEN b ELSE a
Max(a, b) == IF b > a THEN b ELSE a

LimitorNames == {"current", "voltage", "resistance", "power", "duration"}
FlagKeys == {"enabled", "remote"}

\* The ScalingLimitor descriptors of Array371X: min_v, max_v, scale.
Limitor(name) ==
    CASE name = "current" -> [min |-> 0, max |-> 30, scale |-> 1000]
      [] name = "voltage" -> [min |-> 0, max |-> 360, scale |-> 1000]
      [] name = "resistance" -> [min |-> 0, max |-> 500, scale |-> 100]
      [] name = "power" -> [min |-> 0, max |-> 200, scale |-> 10]
      [] name = "duration" -> [min |-> 0, max |-> 65535, scale |-> 1]

\* set_types of the device_state setter.
set_types(key) ==
    CASE key = "current" -> 1
      [] key = "power" -> 2
      [] key = "resistance" -> 3

\* ScalingLimitor.__set__: int(max(min, min(max, value)) * scale) for the
\* value n / ReqDen; int() truncates, and the clamped value is never negative.
ScaledMut(name, n) ==
    LET l == Limitor(name) IN (Max(l.min * ReqDen, n) * l.scale) \div ReqDen
Scaled(name, n) ==
    LET l == Limitor(name) IN
    (Max(l.min * ReqDen, Min(l.max * ReqDen, n)) * l.scale) \div ReqDen

\* Array371X.__init__: int(address), 0 when int() raises ValueError.
InitAddr(arg) == IF arg.kind = "badstr" THEN 0 ELSE arg.v

NoResult == [kind |-> "none"]

\* What the device_state setter does with the command it built.
WriteCommand(cmd) ==
    IF cmd.ok THEN [writes |-> <<cmd.data>>, exc |-> "none"]
    ELSE [writes |-> <<>>, exc |-> "FormatFieldError"]

\* device_state setter for one key: the frames written and the exception raised.
DeviceStateSet(a, maxCurrent, maxPower, key, value) ==
    IF key \in FlagKeys
    THEN WriteCommand(ARRAYCMD_STATE_build(a, key, value))
    ELSE IF key \in SetKinds
    THEN WriteCommand(ARRAYCMD_SET_build(a, maxCurrent, maxPower, a, set_types(key), value))
    ELSE [writes |-> <<>>, exc |-> "none"]

\* device_state getter, after cmd = ARRAYCMD_GET.build(...): writes the
\* query, reads 26 bytes (response) and parses them (p); a parse exception
\* is logged and None is returned.
Exchange(cmd, response, p) ==
    IF ~cmd.ok
    THEN [writes |-> <<>>, reads |-> <<>>, exc |-> "FormatFieldError", none |-> TRUE]
    ELSE IF p.err # "none"
    THEN [writes |-> <<cmd.data>>, reads |-> <<response>>, exc |-> "none", none |-> TRUE]
    ELSE [writes |-> <<cmd.data>>, reads |-> <<response>>, exc |-> "none",
          none |-> FALSE, value |-> p.value]

\* device_state getter.
DeviceStateGet(a, response) ==
    Exchange(ARRAYCMD_GET_build(GetDefaults(a)), response, ARRAYCMD_GET_parse(response))

\* ScalingLimitor.__get__, q being what obj.device_state did and returned:
\* obj.device_state[self.name] / self.scale.
ScalingLimitorGet(q, name) ==
    IF q.exc # "none"
    THEN [writes |-> q.writes, reads |-> q.reads, exc |-> q.exc, result |-> NoResult]
    ELSE IF q.none
    THEN [writes |-> q.writes, reads |-> q.reads, exc |-> "TypeError", result |-> NoResult]
    ELSE IF name \notin DOMAIN q.value
    THEN [writes |-> q.writes, reads |-> q.reads, exc |-> "KeyError", result |-> NoResult]
    ELSE [writes |-> q.writes, reads |-> q.reads, exc |-> "none",
          result |-> [kind |-> "quantity", num |-> q.value[name],
                      den |-> Limitor(name).scale]]

\* DeviceProperty.__get__ for "enabled" and "remote", q1 and q2 being what
\* its two uses of obj.device_state did and returned: ret = obj.device_state
\* (q1), then obj.device_state.get("state").get(self.name, None) (q2).
DevicePropertyGet(q1, q2, name) ==
    IF q1.exc # "none"
    THEN [writes |-> q1.writes, reads |-> q1.reads, exc |-> q1.exc, result |-> NoResult]
    ELSE IF q2.none
    THEN [writes |-> q1.writes \o q2.writes, reads |-> q1.reads \o q2.reads,
          exc |-> "AttributeError", result |-> NoResult]
    ELSE [writes |-> q1.writes \o q2.writes, reads |-> q1.reads \o q2.reads,
          exc |-> "none",
          result |-> [kind |-> "flag", flag |-> q2.value.state[name]]]

(***************************************************************************)
(* Inputs.                                                                 *)
(***************************************************************************)
\* Constructor arguments: integers, and one string int() rejects.
AddressArgs ==
    {[kind |-> "int", v |-> a] : a \in {0, 255, 256}}
        \cup {[kind |-> "badstr", v |-> 0]}

\* Values assigned to max_current (LimitVals) and to max_power (PowerVals).
LimitVals == {0, 3000, 65536}
PowerVals == {0, 2000}

\* Requested values (numerators over ReqDen) around both ends of the range.
ReqVals(name) ==
    LET l == Limitor(name) IN
    {l.min * ReqDen - MaxOver * ReqDen, l.min * ReqDen, l.min * ReqDen + 1,
     l.max * ReqDen - 1, l.max * ReqDen, l.max * ReqDen + 1,
     l.max * ReqDen + MaxOver * ReqDen}

\* What the load holds when it answers.
Snapshots ==
    {[GetDefaults(0) EXCEPT !.current = 250, !.voltage = <<4464, 1>>, !.power = 175,
                            !.max_current = 3000, !.max_power = 2000,
                            !.resistance = 28000,
                            !.state = [NoFlags EXCEPT !.remote = TRUE]],
     [GetDefaults(1) EXCEPT !.current = 30000, !.voltage = <<32320, 5>>,
                            !.state = [NoFlags EXCEPT !.enabled = TRUE,
                                                      !.excessive_current = TRUE]]}

GoodResponses == {ARRAYCMD_GET_build(s).data : s \in Snapshots}

\* What read(26) can return instead: nothing or too little before the
\* timeout, or 26 bytes that are no Get response.
BadResponses ==
    LET f == ARRAYCMD_GET_build(GetDefaults(0)).data IN
    {<<>>, SubSeq(f, 1, 25), [f EXCEPT ![1] = 0], [f EXCEPT ![3] = CMD_SET],
     [f EXCEPT ![26] = (f[26] + 1) % 256]}

Responses == GoodResponses \cup BadResponses

\* DeviceProperty.__get__ discards what its first query returns: one
\* well-formed and one malformed first response.
FirstResponses ==
    {ARRAYCMD_GET_build(GetDefaults(0)).data,
     SubSeq(ARRAYCMD_GET_build(GetDefaults(0)).data, 1, 25)}

(***************************************************************************)
(* The client.                                                             *)
(***************************************************************************)
\* The codec variables while the client runs.
CodecIdle ==
    /\ frame = <<>>
    /\ parsed = [err |-> "StreamError"]
    /\ stage = "idle"
    /\ editPos = -1
    /\ args = [kind |-> "none"]

NoCall(op, name, arg) ==
    [op |-> op, name |-> name, arg |-> arg, writes |-> <<>>, reads |-> <<>>,
     exc |-> "none", result |-> NoResult]

Init ==
    /\ addressArg \in AddressArgs
    /\ addr = InitAddr(addressArg)
    /\ max_power = 0
    /\ max_current = 0
    /\ call = NoCall("init", "", 0)
    /\ CodecIdle

\* obj.max_current = v
SetMaxCurrent(v) ==
    /\ max_current' = v
    /\ call' = NoCall("attr", "max_current", v)
    /\ UNCHANGED <<addressArg, addr, max_power>>
    /\ UNCHANGED codecVars

\* obj.max_power = v
SetMaxPower(v) ==
    /\ max_power' = v
    /\ call' = NoCall("attr", "max_power", v)
    /\ UNCHANGED <<addressArg, addr, max_current>>
    /\ UNCHANGED codecVars

\* obj.<name> = n / ReqDen for a ScalingLimitor
SetQuantity(name, n) ==
    /\ \E r \in {DeviceStateSet(addr, max_current, max_power, name, Scaled(name, n))} :
       call' = [op |-> "set", name |-> name, arg |-> n, writes |-> r.writes,
                reads |-> <<>>, exc |-> r.exc, result |-> NoResult]
    /\ UNCHANGED <<addressArg, addr, max_current, max_power>>
    /\ UNCHANGED codecVars

\* obj.enabled = v, obj.remote = v
SetFlag(name, v) ==
    /\ \E r \in {DeviceStateSet(addr, max_current, max_power, name, v)} :
       call' = [op |-> "set", name |-> name, arg |-> v, writes |-> r.writes,
                reads |-> <<>>, exc |-> r.exc, result |-> NoResult]
    /\ UNCHANGED <<addressArg, addr, max_current, max_power>>
    /\ UNCHANGED codecVars

\* reading obj.<name> for a ScalingLimitor
GetQuantity(name, response) ==
    /\ \E q \in {DeviceStateGet(addr, response)} :
       \E r \in {ScalingLimitorGet(q, name)} :
       call' = [op |-> "get", name |-> name, arg |-> 0, writes |-> r.writes,
                reads |-> r.reads, exc |-> r.exc, result |-> r.result]
    /\ UNCHANGED <<addressArg, addr, max_current, max_power>>
    /\ UNCHANGED codecVars

\* reading obj.enabled, obj.remote
GetFlag(name, response1, response2) ==
    /\ \E q1 \in {DeviceStateGet(addr, response1)} :
       \E q2 \in {DeviceStateGet(addr, response2)} :
       \E r \in {DevicePropertyGet(q1, q2, name)} :
       call' = [op |-> "get", name |-> name, arg |-> 0, writes |-> r.writes,
                reads |-> r.reads, exc |-> r.exc, result |-> r.result]
    /\ UNCHANGED <<addressArg, addr, max_current, max_power>>
    /\ UNCHANGED codecVars

Next ==
    \/ \E v \in LimitVals : SetMaxCurrent(v)
    \/ \E v \in PowerVals : SetMaxPower(v)
    \/ \E name \in LimitorNames : \E n \in ReqVals(name) : SetQuantity(name, n)
    \/ \E name \in FlagKeys : \E v \in {0, 1} : SetFlag(name, v)
    \/ \E name \in LimitorNames : \E r \in Responses : GetQuantity(name, r)
    \/ \E name \in FlagKeys : \E r1 \in FirstResponses : \E r2 \in Responses :
            GetFlag(name, r1, r2)

Spec == Init /\ [][Next]_vars

(***************************************************************************)
(* The frame codec on its own: the arguments are drawn at the start, then  *)
(* a frame is built from them and parsed back; a built Get frame can have   *)
(* one byte replaced, and then its checksum byte recomputed.                *)
(***************************************************************************)
SetBytes == {0, 1, 254, 255, 256}
SetWords == {0, 250, 3000, 65535, 65536}

SetInputs ==
    {[kind |-> "set", address |-> a, max_current |-> mc, max_power |-> mp,
      new_address |-> na, type |-> k, value |-> v] :
        a \in SetBytes, mc \in SetWords, mp \in {0, 2000, 65535}, na \in SetBytes,
        k \in SetKinds, v \in SetWords}

GetInputs ==
    {[kind |-> "get", value |-> s] :
        s \in Snapshots \cup
              {[GetDefaults(0) EXCEPT !.state = [NoFlags EXCEPT ![n] = TRUE]] :
                  n \in DOMAIN NoFlags} \cup
              {GetDefaults(0),
               [address |-> 255, current |-> 65535, voltage |-> <<65535, 65535>>,
                power |-> 65535, max_current |-> 65535, max_power |-> 65535,
                resistance |-> 65535,
                state |-> [n \in DOMAIN NoFlags |-> TRUE]]}}

ClientIdle ==
    /\ addressArg = [kind |-> "int", v |-> 0]
    /\ addr = 0
    /\ max_power = 0
    /\ max_current = 0
    /\ call = NoCall("init", "", 0)

CodecInit ==
    /\ args \in SetInputs \cup GetInputs
    /\ frame = <<>>
    /\ parsed = [err |-> "StreamError"]
    /\ stage = "args"
    /\ editPos = -1
    /\ ClientIdle

\* ARRAYCMD_SET.parse(ARRAYCMD_SET.build(...)) with the type given by name.
EncodeSet ==
    /\ stage = "args"
    /\ args.kind = "set"
    /\ \E cmd \in {ARRAYCMD_SET_build(args.address, args.max_current, args.max_power,
                                      args.new_address, EnumEncode(args.type),
                                      args.value)} :
          /\ frame' = cmd.data
          /\ parsed' = ARRAYCMD_SET_parse(cmd.data)
    /\ stage' = "set"
    /\ UNCHANGED <<editPos, args>>
    /\ UNCHANGED clientVars

\* ARRAYCMD_GET.parse(ARRAYCMD_GET.build(...)) with every field given.
EncodeGet ==
    /\ stage = "args"
    /\ args.kind = "get"
    /\ \E cmd \in {ARRAYCMD_GET_build(args.value)} :
          /\ frame' = cmd.data
          /\ parsed' = ARRAYCMD_GET_parse(cmd.data)
    /\ stage' = "get"
    /\ UNCHANGED <<editPos, args>>
    /\ UNCHANGED clientVars

\* One byte of a built Get frame, the checksum byte excepted, is replaced
\* by a different value and the frame is parsed again.
EditByte(pos, val) ==
    /\ At(frame, pos) # val
    /\ \E f \in {[frame EXCEPT ![pos + 1] = val]} :
          /\ frame' = f
          /\ parsed' = ARRAYCMD_GET_parse(f)
    /\ stage' = "edited"
    /\ editPos' = pos
    /\ UNCHANGED args
    /\ UNCHANGED clientVars

\* The checksum byte of the edited frame is replaced by the checksum of
\* its first 25 bytes and the frame is parsed again.
FixChecksum ==
    /\ stage = "edited"
    /\ \E f \in {[frame EXCEPT ![FRAME_LEN] = Checksum(SubSeq(frame, 1, FRAME_LEN - 1))]} :
          /\ frame' = f
          /\ parsed' = ARRAYCMD_GET_parse(f)
    /\ stage' = "fixed"
    /\ UNCHANGED <<editPos, args>>
    /\ UNCHANGED clientVars

CodecNext ==
    \/ EncodeSet
    \/ EncodeGet
    \/ /\ stage = "get"
       /\ \E pos \in 0..(FRAME_LEN - 2) : \E val \in 0..255 : EditByte(pos, val)
    \/ FixChecksum

CodecSpec == CodecInit /\ [][CodecNext]_vars

(***************************************************************************)
(* Properties of the client (checked under Spec).                          *)
(***************************************************************************)
Written == {call.writes[i] : i \in 1..Len(call.writes)}

\* The 16-bit little-endian field at wire offset k.
Word(f, k) == At(f, k) + 256 * At(f, k + 1)

\* The documented range and scale of a settable quantity.
DocRange(name) ==
    CASE name = "current" -> [min |-> 0, max |-> 30, scale |-> 1000]
      [] name = "resistance" -> [min |-> 0, max |-> 500, scale |-> 100]
      [] name = "power" -> [min |-> 0, max |-> 200, scale |-> 10]

\* The documented type code of a settable quantity.
DocType(name) ==
    CASE name = "current" -> 1 [] name = "power" -> 2 [] name = "resistance" -> 3

Encodable == addr \in 0..255 /\ max_current \in 0..65535 /\ max_power \in 0..65535

SetpointWrite == call.op = "set" /\ call.name \in {"current", "power", "resistance"}

\* C1: every frame the client writes (Set 0x90, Get query 0x91, State 0x92)
\* is 26 bytes long, starts with 0xAA and ends with the sum of its first 25
\* bytes modulo 256.
C1_FramesWellFormed ==
    \A f \in Written :
        /\ Len(f) = 26
        /\ At(f, 0) = 170
        /\ At(f, 2) \in {144, 145, 146}
        /\ At(f, 25) = SumTo(f, 25) % 256

C1_Witness ==
    /\ call.op = "set" /\ call.name = "power"
    /\ max_current = 3000 /\ max_power = 2000
    /\ \E f \in Written : At(f, 2) = 144 /\ At(f, 25) # 0

\* C2: a setpoint write of current, power or resistance writes exactly one
\* frame: address, 0x90, cached max_current and max_power (little-endian),
\* new_address = address, type 1/2/3, the scaled setpoint (little-endian),
\* fourteen zero bytes; when the address or a cached limit cannot be encoded
\* nothing is written.
C2_SetFrameLayout ==
    SetpointWrite =>
        IF Encodable
        THEN /\ Len(call.writes) = 1
             /\ LET f == call.writes[1]
                    r == DocRange(call.name)
                    n == call.arg
                    c == IF n < r.min * ReqDen THEN r.min * ReqDen
                         ELSE IF n > r.max * ReqDen THEN r.max * ReqDen ELSE n
                IN  /\ At(f, 1) = addr
                    /\ At(f, 2) = 144
                    /\ At(f, 3) = max_current % 256
                    /\ At(f, 4) = max_current \div 256
                    /\ At(f, 5) = max_power % 256
                    /\ At(f, 6) = max_power \div 256
                    /\ At(f, 7) = addr
                    /\ At(f, 8) = DocType(call.name)
                    /\ Word(f, 9) = (c * r.scale) \div ReqDen
                    /\ \A k \in 11..24 : At(f, k) = 0
        ELSE call.writes = <<>> /\ call.exc = "FormatFieldError"

C2_Witness ==
    /\ SetpointWrite /\ call.name = "resistance"
    /\ max_current = 3000 /\ max_power = 2000 /\ addr = 255
    /\ call.arg = 500 * ReqDen - 1
    /\ Len(call.writes) = 1

\* C3: when the bytes read for a state query are no valid Get response, the
\* read fails with the decode error of those bytes (short read, bad start or
\* command byte, checksum mismatch) and yields no value.
C3_DecodeErrorPropagated ==
    (call.op = "get" /\ call.reads # <<>>) =>
        \A i \in 1..Len(call.reads) :
            ARRAYCMD_GET_parse(call.reads[i]).err # "none" =>
                /\ call.exc = ARRAYCMD_GET_parse(call.reads[i]).err
                /\ call.result = NoResult
                /\ Len(call.reads) = i

\* C6: a setpoint write never fails on range, and the value field written is
\* min*scale below min, max*scale above max, and requested*scale at min and
\* at max.
C6_Clamp ==
    (SetpointWrite /\ Encodable) =>
        /\ call.exc = "none"
        /\ Len(call.writes) = 1
        /\ LET v == Word(call.writes[1], 9)
               r == DocRange(call.name)
               n == call.arg
           IN  /\ n < r.min * ReqDen => v = r.min * r.scale
               /\ n > r.max * ReqDen => v = r.max * r.scale
               /\ n \in {r.min * ReqDen, r.max * ReqDen} => v * ReqDen = n * r.scale

C6_Witness ==
    /\ SetpointWrite /\ Encodable
    /\ call.name = "current"
    /\ call.arg > 30 * ReqDen
    /\ Word(call.writes[1], 9) = 30000

\* C8: a client is bound only to an address in 0x00..0xFE, the one supplied
\* at construction, so every frame written carries that address.
C8_ValidAddressOnly ==
    \A f \in Written :
        /\ At(f, 1) \in 0..254
        /\ addressArg.kind = "int"
        /\ At(f, 1) = addressArg.v

\* C9: a command writes one 26-byte frame and reads nothing; a query writes
\* one 26-byte Get query, reads once, and answers from that response.
C9_OneExchangePerCall ==
    /\ (call.op = "set" /\ call.name \in SetKinds \cup FlagKeys /\ call.exc = "none") =>
           /\ Len(call.writes) = 1
           /\ Len(call.writes[1]) = 26
           /\ call.reads = <<>>
    /\ (call.op = "get" /\ call.exc # "FormatFieldError"
            /\ call.name \in {"current", "voltage", "power", "resistance",
                              "enabled", "remote"}) =>
           /\ Len(call.writes) = 1
           /\ Len(call.writes[1]) = 26
           /\ At(call.writes[1], 2) = 145
           /\ Len(call.reads) = 1
           /\ call.result.kind = "flag" =>
                  call.result.flag = ARRAYCMD_GET_parse(call.reads[1]).value.state[call.name]
           /\ call.result.kind = "quantity" =>
                  call.result.num = ARRAYCMD_GET_parse(call.reads[1]).value[call.name]

\* C10: assigning enabled = v writes a State frame with status bit 0 = v and
\* bit 1 (remote) = 1; assigning remote = v writes bit 1 = v and bit 0
\* (enabled) = 0; bits 2..7 are 0.  So no State frame with enabled = 1 and
\* remote = 0 is written, and every assignment to remote disables the load.
C10_StateFrameDefaults ==
    (call.op = "set" /\ call.name \in {"enabled", "remote"} /\ addr \in 0..255) =>
        /\ Len(call.writes) = 1
        /\ LET f == call.writes[1] IN
              /\ At(f, 2) = 146
              /\ call.name = "enabled" => At(f, 3) = 2 + call.arg
              /\ call.name = "remote" => At(f, 3) = 2 * call.arg
              /\ ~(At(f, 3) % 2 = 1 /\ (At(f, 3) \div 2) % 2 = 0)
              /\ \A k \in 4..24 : At(f, k) = 0

C10_Witness ==
    /\ call.op = "set" /\ call.name = "enabled" /\ call.arg = 0
    /\ Len(call.writes) = 1
    /\ At(call.writes[1], 3) = 2

(***************************************************************************)
(* Properties of the frame codec (checked under CodecSpec).                *)
(***************************************************************************)
Bit(b, i) == (b \div (2 ^ i)) % 2 = 1

\* C4 as stated: replacing any one of bytes 0..24 of a valid Get response
\* makes decode fail with a checksum mismatch.
C4_AnyEditIsChecksumError ==
    stage = "edited" => parsed.err = "ChecksumError"

\* C4 as amended: replacing one of bytes 1, 3..24 of a valid Get response
\* makes decode fail with a checksum mismatch, replacing byte 0 or byte 2
\* makes it fail on the constant instead; after an edit of a byte other than
\* 0 and 2, recomputing the checksum byte makes decode succeed again.
C4_EditDetected ==
    /\ (stage = "edited" /\ editPos \notin {0, 2}) => parsed.err = "ChecksumError"
    /\ (stage = "edited" /\ editPos \in {0, 2}) => parsed.err = "ConstError"
    /\ (stage = "fixed" /\ editPos \notin {0, 2}) => parsed.err = "none"
    /\ (stage = "fixed" /\ editPos \in {0, 2}) => parsed.err = "ConstError"

C4_Witness ==
    /\ stage = "fixed" /\ editPos = 9
    /\ At(frame, 9) = 255
    /\ parsed.err = "none" /\ parsed.value.power = 255

\* C5: the status byte at offset 17 decodes to remote = bit 0, enabled =
\* bit 1, incorrect_polarity = bit 2, excessive_temperature = bit 3,
\* excessive_voltage = bit 4, excessive_current = bit 5, whatever bits 6
\* and 7 are.
C5_StatusBits ==
    (stage \in {"get", "fixed"} /\ parsed.err = "none") =>
        LET b == At(frame, 17)
            s == parsed.value.state
        IN  /\ s.remote = Bit(b, 0)
            /\ s.enabled = Bit(b, 1)
            /\ s.incorrect_polarity = Bit(b, 2)
            /\ s.excessive_temperature = Bit(b, 3)
            /\ s.excessive_voltage = Bit(b, 4)
            /\ s.excessive_current = Bit(b, 5)
            /\ DOMAIN s = {"remote", "enabled", "incorrect_polarity",
                           "excessive_temperature", "excessive_voltage",
                           "excessive_current"}

C5_Witness ==
    /\ stage = "fixed" /\ editPos = 17 /\ parsed.err = "none"
    /\ At(frame, 17) = 195
    /\ parsed.value.state = [NoFlags EXCEPT !.enabled = TRUE, !.remote = TRUE]

\* C7: decoding the Set frame built from in-range (address, max_current,
\* max_power, new_address, kind, value) succeeds and returns the same six
\* values; address 0, max_current 3000, max_power 0, new_address 0,
\* current, 250 builds AA 00 90 B8 0B 00 00 00 01 FA 00, fourteen zeros
\* and the checksum.
C7_SetRoundTrip ==
    (/\ stage = "set"
     /\ args.address \in 0..255 /\ args.new_address \in 0..255
     /\ args.max_current \in 0..65535 /\ args.max_power \in 0..65535
     /\ args.value \in 0..65535) =>
        /\ parsed.err = "none"
        /\ parsed.value.address = args.address
        /\ parsed.value.max_current = args.max_current
        /\ parsed.value.max_power = args.max_power
        /\ parsed.value.new_address = args.new_address
        /\ parsed.value.type = args.type
        /\ parsed.value.value = args.value
        /\ (/\ args.address = 0 /\ args.max_current = 3000 /\ args.max_power = 0
            /\ args.new_address = 0 /\ args.type = "current" /\ args.value = 250) =>
               frame = <<170, 0, 144, 184, 11, 0, 0, 0, 1, 250, 0>> \o
                       [i \in 1..14 |-> 0] \o <<248>>

C7_Witness ==
    /\ stage = "set" /\ parsed.err = "none"
    /\ args.address = 254 /\ args.new_address = 255 /\ args.type = "resistance"
    /\ args.max_current = 3000 /\ args.max_power = 65535
    /\ parsed.value.value = 65535

====
